---------------------------- MODULE Spec2Model ----------------------------
(***************************************************************************)
(* The Denver happy-hour pipeline of denver-happy-hours/scripts:           *)
(*   scraper.js   (Venue Discovery)      -> data/venues.json               *)
(*   crawler.js   (Content Crawler)      -> data/raw/<id>.txt              *)
(*   extractor.js (Information Extractor)-> data/happy_hours.json          *)
(* Texts are TLA+ strings and are read character by character; the         *)
(* regular expressions of the scripts are written as syntax trees and run  *)
(* by a backtracking matcher with JavaScript's priorities (leftmost start, *)
(* greedy/lazy quantifiers, ordered alternation).                          *)
(*                                                                         *)
(* Strings of this module are ASCII.  The en dash U+2013 of the source's    *)
(* separator classes is written EnDash; the two non-ASCII characters the   *)
(* source file holds for the n-tilde of one fallback venue name are        *)
(* written NTilde (neither is a letter a-z or a digit).                    *)
(***************************************************************************)
EXTENDS Integers, Sequences, FiniteSets, TLC

(***************************************************************************)
(* Strings                                                                 *)
(***************************************************************************)
EnDash == "~"
NTilde == "^^"

\* JavaScript's null / undefined.
Null == "<null>"

UpperAlphabet == "ABCDEFGHIJKLMNOPQRSTUVWXYZ"
LowerAlphabet == "abcdefghijklmnopqrstuvwxyz"
DigitAlphabet == "0123456789"

CharsOf(s) == {SubSeq(s, i, i) : i \in 1..Len(s)}

UpperChars == CharsOf(UpperAlphabet)
LowerChars == CharsOf(LowerAlphabet)
DigitChars == CharsOf(DigitAlphabet)
\* \w of a regular expression
WordChars == UpperChars \cup LowerChars \cup DigitChars \cup {"_"}
\* \s of a regular expression, over the characters the texts here hold
SpaceChars == {" ", "\n", "\t"}

LowerMap ==
    [c \in UpperChars |->
        LET i == CHOOSE k \in 1..Len(UpperAlphabet) : SubSeq(UpperAlphabet, k, k) = c
        IN  SubSeq(LowerAlphabet, i, i)]

UpperMap ==
    [c \in LowerChars |->
        LET i == CHOOSE k \in 1..Len(LowerAlphabet) : SubSeq(LowerAlphabet, k, k) = c
        IN  SubSeq(UpperAlphabet, i, i)]

LowerChar(c) == IF c \in UpperChars THEN LowerMap[c] ELSE c
UpperChar(c) == IF c \in LowerChars THEN UpperMap[c] ELSE c

\* The characters lo..hi of s, each mapped; split in halves so that the
\* evaluation nests only logarithmically deep.
RECURSIVE MapChars(_, _, _, _)
MapChars(s, lo, hi, up) ==
    IF lo > hi THEN ""
    ELSE IF lo = hi
         THEN (IF up THEN UpperChar(SubSeq(s, lo, lo)) ELSE LowerChar(SubSeq(s, lo, lo)))
         ELSE LET mid == (lo + hi) \div 2
              IN  MapChars(s, lo, mid, up) \o MapChars(s, mid + 1, hi, up)

\* String.prototype.toLowerCase / toUpperCase
toLowerCase(s) == MapChars(s, 1, Len(s), FALSE)
toUpperCase(s) == MapChars(s, 1, Len(s), TRUE)

\* String.prototype.includes
includes(s, sub) ==
    \E i \in 1..(Len(s) - Len(sub) + 1) : SubSeq(s, i, i + Len(sub) - 1) = sub

\* String.prototype.startsWith / endsWith
startsWith(s, pre) == Len(pre) <= Len(s) /\ SubSeq(s, 1, Len(pre)) = pre
endsWith(s, suf) ==
    Len(suf) <= Len(s) /\ SubSeq(s, Len(s) - Len(suf) + 1, Len(s)) = suf

\* String.prototype.trim: from the first to the last non-space character
trim(s) ==
    IF \A i \in 1..Len(s) : SubSeq(s, i, i) \in SpaceChars THEN ""
    ELSE SubSeq(s,
                CHOOSE i \in 1..Len(s) :
                    /\ SubSeq(s, i, i) \notin SpaceChars
                    /\ \A j \in 1..(i - 1) : SubSeq(s, j, j) \in SpaceChars,
                CHOOSE i \in 1..Len(s) :
                    /\ SubSeq(s, i, i) \notin SpaceChars
                    /\ \A j \in (i + 1)..Len(s) : SubSeq(s, j, j) \in SpaceChars)

\* Array.prototype.indexOf, 0-based, -1 when absent
indexOf(seq, x) ==
    IF \E i \in 1..Len(seq) : seq[i] = x
    THEN (CHOOSE i \in 1..Len(seq) :
             seq[i] = x /\ \A j \in 1..(i - 1) : seq[j] # x) - 1
    ELSE -1

\* Set.prototype.add on an insertion-ordered Set, kept as a sequence
SetAdd(seq, x) == IF \E i \in 1..Len(seq) : seq[i] = x THEN seq ELSE Append(seq, x)

(***************************************************************************)
(* Regular expressions: syntax trees and a backtracking matcher            *)
(***************************************************************************)
Cls(s)        == [t |-> "cls", s |-> s]
NotCls(s)     == [t |-> "ncls", s |-> s]
Lit(s)        == [t |-> "lit", s |-> s]
Cat(a)        == [t |-> "cat", a |-> a]
Alt(a)        == [t |-> "alt", a |-> a]
\* the end of a pattern
Accept        == [t |-> "accept"]
\* c{lo,hi} of a character class c, greedy; hi = -1: unbounded
Rep(r, lo, hi) == [t |-> "rep", r |-> r, lo |-> lo, hi |-> hi]
Star(r)       == Rep(r, 0, -1)
Plus(r)       == Rep(r, 1, -1)
\* r? is r or else nothing; (?:a|b)? is a, or else b, or else nothing
Opt(r)        == Alt((IF r.t = "alt" THEN r.a ELSE <<r>>) \o <<Cat(<<>>)>>)
\* c*? of a character class c
LazyStar(r)   == [t |-> "lazy", r |-> r, lo |-> 0, hi |-> -1]
\* the n-th capturing group
Grp(n, r)     == [t |-> "grp", n |-> n, r |-> r]
WordB         == [t |-> "wb"]
Bol           == [t |-> "bol"]
Eol           == [t |-> "eol"]

Fail == [ok |-> FALSE]
NoGroups == <<Null, Null>>

\* The one element of a singleton.  { e(v) : v \in {x} } computes x once and
\* names it v; Only takes the result out.
Only(S) == CHOOSE v \in S : TRUE

InCls(c, s, ci) == c \in s \/ (ci /\ (LowerChar(c) \in s \/ UpperChar(c) \in s))
ClassHas(n, c, ci) == IF n.t = "cls" THEN InCls(c, n.s, ci) ELSE ~InCls(c, n.s, ci)
IsClass(n) == n.t = "cls" \/ n.t = "ncls"
EqChar(a, b, ci) == a = b \/ (ci /\ LowerChar(a) = LowerChar(b))
\* the literal lit stands at position p of text
LitAt(text, p, lit, ci) ==
    /\ p + Len(lit) - 1 <= Len(text)
    /\ \A k \in 1..Len(lit) : EqChar(SubSeq(text, p + k - 1, p + k - 1), SubSeq(lit, k, k), ci)
IsWordAt(text, p) == p >= 1 /\ p <= Len(text) /\ SubSeq(text, p, p) \in WordChars
\* the first position at or after p whose character is not in class n
ClassRunEnd(n, text, p, ci) ==
    CHOOSE q \in p..(Len(text) + 1) :
        /\ q > Len(text) \/ ~ClassHas(n, SubSeq(text, q, q), ci)
        /\ \A i \in p..(q - 1) : ClassHas(n, SubSeq(text, i, i), ci)
\* how many characters a quantified class n.r can take at p, at most
MostAt(n, text, p, ci) ==
    IF n.hi >= 0 /\ n.hi < ClassRunEnd(n.r, text, p, ci) - p
    THEN n.hi ELSE ClassRunEnd(n.r, text, p, ci) - p

\* the first successful one of a sequence of attempts
FirstOk(rs) ==
    IF \E k \in DOMAIN rs : rs[k].ok
    THEN rs[CHOOSE k \in DOMAIN rs : rs[k].ok /\ \A j \in 1..(k - 1) : ~rs[j].ok]
    ELSE Fail

\* Run(cont, text, p, g, ci): match the nodes of cont, which ends with
\* Accept, one after the other from position p (1-based) of text; g holds the
\* groups captured so far and ci is the i flag.  The result is the first
\* match in the backtracking order of the regular expression, or Fail: the
\* alternatives of an alternation are tried left to right, the counts of a
\* greedy quantifier from the most down and those of a lazy one from the
\* least up.
RECURSIVE Run(_, _, _, _, _)
Run(cont, text, p, g, ci) ==
    CASE cont[1].t = "accept" -> [ok |-> TRUE, p |-> p, g |-> g]
      [] IsClass(cont[1]) ->
            IF p <= Len(text) /\ ClassHas(cont[1], SubSeq(text, p, p), ci)
            THEN Run(Tail(cont), text, p + 1, g, ci) ELSE Fail
      [] cont[1].t = "lit" ->
            IF LitAt(text, p, cont[1].s, ci)
            THEN Run(Tail(cont), text, p + Len(cont[1].s), g, ci) ELSE Fail
      [] cont[1].t = "cat" -> Run(cont[1].a \o Tail(cont), text, p, g, ci)
      [] cont[1].t = "alt" ->
            FirstOk([k \in 1..Len(cont[1].a) |->
                        Run(<<cont[1].a[k]>> \o Tail(cont), text, p, g, ci)])
      [] cont[1].t \in {"rep", "lazy"} ->
            LET most == MostAt(cont[1], text, p, ci)
            IN  IF most < cont[1].lo THEN Fail
                ELSE IF most = cont[1].lo
                     THEN Run(Tail(cont), text, p + most, g, ci)
                     ELSE FirstOk([k \in 1..(most - cont[1].lo + 1) |->
                                      Run(Tail(cont), text,
                                          p + (IF cont[1].t = "rep" THEN most - k + 1
                                               ELSE cont[1].lo + k - 1),
                                          g, ci)])
      [] cont[1].t = "grp" ->
            Run(<<cont[1].r, [t |-> "end", n |-> cont[1].n, s |-> p]>> \o Tail(cont),
                text, p, g, ci)
      [] cont[1].t = "end" ->
            Run(Tail(cont), text, p,
                [g EXCEPT ![cont[1].n] = SubSeq(text, cont[1].s, p - 1)], ci)
      [] cont[1].t = "wb" ->
            IF IsWordAt(text, p - 1) # IsWordAt(text, p)
            THEN Run(Tail(cont), text, p, g, ci) ELSE Fail
      [] cont[1].t = "bol" ->
            IF p = 1 THEN Run(Tail(cont), text, p, g, ci) ELSE Fail
      [] cont[1].t = "eol" ->
            IF p = Len(text) + 1 THEN Run(Tail(cont), text, p, g, ci) ELSE Fail

\* the attempts at the start indexes (0-based) lastIndex..Len(text)
MatchesFrom(re, text, lastIndex, ci) ==
    [i \in lastIndex..Len(text) |-> Run(<<re, Accept>>, text, i + 1, NoGroups, ci)]

\* RegExp.prototype.exec from lastIndex (0-based): the leftmost match at or
\* after it.  m0 is match[0], g the groups, lastIndex the index after the
\* match (what a g-flag pattern keeps); no match: ok = FALSE, lastIndex = 0.
exec(re, text, lastIndex, ci) ==
    Only({ IF \E i \in DOMAIN ms : ms[i].ok
           THEN Only({ [ok |-> TRUE, m0 |-> SubSeq(text, index + 1, ms[index].p - 1),
                        g |-> ms[index].g, index |-> index,
                        lastIndex |-> ms[index].p - 1] :
                       index \in { CHOOSE i \in DOMAIN ms :
                                      ms[i].ok /\ \A j \in lastIndex..(i - 1) : ~ms[j].ok } })
           ELSE [ok |-> FALSE, lastIndex |-> 0] :
           ms \in {MatchesFrom(re, text, lastIndex, ci)} })

\* RegExp.prototype.test of a pattern without the g flag
test(re, text, ci) == exec(re, text, 0, ci).ok

(***************************************************************************)
(* scraper.js: helpers and the curated fallback list                       *)
(***************************************************************************)
\* String.prototype.replace with a g-flag pattern and a fixed replacement
RECURSIVE ReplaceAllFrom(_, _, _, _, _, _)
ReplaceAllFrom(txt, re, ci, by, lastIndex, acc) ==
    Only({ IF ~m.ok THEN acc \o SubSeq(txt, lastIndex + 1, Len(txt))
           ELSE ReplaceAllFrom(txt, re, ci, by, m.lastIndex,
                               acc \o SubSeq(txt, lastIndex + 1, m.index) \o by) :
           m \in {exec(re, txt, lastIndex, ci)} })

replaceAll(txt, re, ci, by) == ReplaceAllFrom(txt, re, ci, by, 0, "")

\* name.toLowerCase().replace(/[^a-z0-9]+/g, '-').replace(/(^-|-$)/g, '')
NotSlugChars == Plus(NotCls(LowerChars \cup DigitChars))
EdgeDash == Grp(1, Alt(<<Cat(<<Bol, Lit("-")>>), Cat(<<Lit("-"), Eol>>)>>))

slugify(name) ==
    Only({ Only({ replaceAll(dashed, EdgeDash, FALSE, "") :
                  dashed \in {replaceAll(lower, NotSlugChars, FALSE, "-")} }) :
           lower \in {toLowerCase(name)} })

\* now(): the run's ISO timestamp; its value plays no part
Timestamp == "ts"

lodoVenues ==
    << [name |-> "Falling Rock Tap House", address |-> "1919 Blake St, Denver, CO 80202", website |-> "https://fallingrocktaphouse.com"],
       [name |-> "Wynkoop Brewing Company", address |-> "1634 18th St, Denver, CO 80202", website |-> "https://wynkoop.com"],
       [name |-> "Terminal Bar", address |-> "1701 Wynkoop St, Denver, CO 80202", website |-> "https://theterminalbar.com"],
       [name |-> "Herb's Hideout", address |-> "2057 Larimer St, Denver, CO 80205", website |-> "https://herbshideout.com"],
       [name |-> "The Cruise Room", address |-> "1600 17th St, Denver, CO 80202", website |-> "https://thecruiseroom.com"],
       [name |-> "Retro Room", address |-> "1801 Wynkoop St, Denver, CO 80202", website |-> Null],
       [name |-> "Viewhouse Eatery", address |-> "2015 Market St, Denver, CO 80205", website |-> "https://viewhouse.com"],
       [name |-> "Nallen's Irish Pub", address |-> "1429 Market St, Denver, CO 80202", website |-> "https://nallensirishpub.com"],
       [name |-> "Star Bar Denver", address |-> "2137 Larimer St, Denver, CO 80205", website |-> "https://starbardenver.com"],
       [name |-> "The 1UP - LoDo", address |-> "1925 Blake St, Denver, CO 80202", website |-> "https://the1up.com"],
       [name |-> "Great Divide Brewing", address |-> "2201 Arapahoe St, Denver, CO 80205", website |-> "https://greatdivide.com"],
       [name |-> "Jagged Mountain Craft Brewery", address |-> "1139 20th St, Denver, CO 80202", website |-> "https://jaggedmountainbrewery.com"] >>

lohiVenues ==
    << [name |-> "Linger", address |-> "2030 W 30th Ave, Denver, CO 80211", website |-> "https://lingerdenver.com"],
       [name |-> "LoHi SteakBar", address |-> "3200 Tejon St, Denver, CO 80211", website |-> "https://lohisteakbar.com"],
       [name |-> "Avanti Food & Beverage", address |-> "3200 Pecos St, Denver, CO 80211", website |-> "https://avantifandb.com"],
       [name |-> "Little Man Ice Cream", address |-> "2620 16th St, Denver, CO 80211", website |-> "https://littlemanicecream.com"],
       [name |-> "Williams & Graham", address |-> "3160 Tejon St, Denver, CO 80211", website |-> "https://williamsandgraham.com"],
       [name |-> "Highland Tap and Burger", address |-> "2219 W 32nd Ave, Denver, CO 80211", website |-> "https://highlandtapandburger.com"],
       [name |-> "Ale House at Amato's", address |-> "2501 16th St, Denver, CO 80211", website |-> "https://alehousedenver.com"],
       [name |-> "Reiver's Bar", address |-> "1085 S Gaylord St, Denver, CO 80209", website |-> Null],
       [name |-> "Garibaldi Mexican Bistro", address |-> "3055 Zuni St, Denver, CO 80211", website |-> "https://garibaldimexican.com"],
       [name |-> "El Camino Community Tavern", address |-> "3628 W 32nd Ave, Denver, CO 80211", website |-> "https://elcaminotavern.com"],
       [name |-> "Se" \o NTilde \o "or Bear", address |-> "3301 Tejon St, Denver, CO 80211", website |-> "https://senorbeardenver.com"],
       [name |-> "The Way Back", address |-> "3279 Navajo St, Denver, CO 80211", website |-> "https://thewaybackdenver.com"] >>

FallbackVenue(v, nbhd) ==
    [id |-> slugify(v.name), name |-> v.name, address |-> v.address,
     neighborhood |-> nbhd, website |-> v.website, scraped_at |-> Timestamp]

getFallbackVenues ==
    [i \in 1..Len(lodoVenues) |-> FallbackVenue(lodoVenues[i], "LoDo")]
    \o [i \in 1..Len(lohiVenues) |-> FallbackVenue(lohiVenues[i], "LoHi")]

(***************************************************************************)
(* extractor.js: day extraction                                            *)
(***************************************************************************)
DAYS_OF_WEEK ==
    <<"Monday", "Tuesday", "Wednesday", "Thursday", "Friday", "Saturday", "Sunday">>

WEEKDAYS == <<"Monday", "Tuesday", "Wednesday", "Thursday", "Friday">>

Ws   == Cls(SpaceChars)
Dash == Cls({"-", EnDash})

RECURSIVE NormalizeDayFrom(_, _)
NormalizeDayFrom(lower, k) ==
    IF k > Len(DAYS_OF_WEEK) THEN Null
    ELSE IF startsWith(toLowerCase(DAYS_OF_WEEK[k]), SubSeq(lower, 1, 3))
         THEN DAYS_OF_WEEK[k]
         ELSE NormalizeDayFrom(lower, k + 1)

normalizeDay(dayStr) ==
    Only({ Only({ NormalizeDayFrom(trimmed, 1) : trimmed \in {trim(lower)} }) :
           lower \in {toLowerCase(dayStr)} })

FullDayName ==
    Alt(<<Lit("monday"), Lit("tuesday"), Lit("wednesday"), Lit("thursday"),
          Lit("friday"), Lit("saturday"), Lit("sunday")>>)

\* /(monday|...|sunday)\s*[-~]?\s*(?:through|thru|to)?\s*[-~]?\s*(monday|...|sunday)/gi
rangePattern ==
    Cat(<<Grp(1, FullDayName), Star(Ws), Opt(Dash), Star(Ws),
          Opt(Alt(<<Lit("through"), Lit("thru"), Lit("to")>>)),
          Star(Ws), Opt(Dash), Star(Ws), Grp(2, FullDayName)>>)

\* /\b(mon(?:day)?|tue(?:s(?:day)?)?|wed(?:nesday)?|thu(?:rs(?:day)?)?|fri(?:day)?
\*     |sat(?:urday)?|sun(?:day)?)\b/gi
dayPattern ==
    Cat(<<WordB,
          Grp(1, Alt(<<Cat(<<Lit("mon"), Opt(Lit("day"))>>),
                       Cat(<<Lit("tue"), Opt(Cat(<<Lit("s"), Opt(Lit("day"))>>))>>),
                       Cat(<<Lit("wed"), Opt(Lit("nesday"))>>),
                       Cat(<<Lit("thu"), Opt(Cat(<<Lit("rs"), Opt(Lit("day"))>>))>>),
                       Cat(<<Lit("fri"), Opt(Lit("day"))>>),
                       Cat(<<Lit("sat"), Opt(Lit("urday"))>>),
                       Cat(<<Lit("sun"), Opt(Lit("day"))>>)>>)),
          WordB>>)

\* for (let i = startIdx; i !== (endIdx + 1) % 7; i = (i + 1) % 7) days.add(...)
RECURSIVE RangeFor(_, _, _)
RangeFor(i, endIdx, days) ==
    IF i = (endIdx + 1) % 7 THEN days
    ELSE RangeFor((i + 1) % 7, endIdx, SetAdd(days, DAYS_OF_WEEK[i + 1]))

\* A range that contributes its two end days only.
ExpandRangeEndsOnly(start, end, days) ==
    IF start # Null /\ end # Null THEN SetAdd(SetAdd(days, start), end) ELSE days

ExpandRange(start, end, days) ==
    IF start # Null /\ end # Null
    THEN LET startIdx == indexOf(DAYS_OF_WEEK, start)
             endIdx   == indexOf(DAYS_OF_WEEK, end)
         IN  IF startIdx >= 0 /\ endIdx >= 0
             THEN SetAdd(RangeFor(startIdx, endIdx, days), DAYS_OF_WEEK[endIdx + 1])
             ELSE days
    ELSE days

\* while ((match = rangePattern.exec(text)) !== null) { ... }
RECURSIVE RangeLoop(_, _, _)
RangeLoop(txt, lastIndex, days) ==
    Only({ IF ~match.ok THEN days
           ELSE Only({ RangeLoop(txt, match.lastIndex, added) :
                       added \in { Only({ ExpandRange(start, end, days) :
                                          start \in {normalizeDay(match.g[1])},
                                          end \in {normalizeDay(match.g[2])} }) } }) :
           match \in {exec(rangePattern, txt, lastIndex, TRUE)} })

\* while ((match = dayPattern.exec(text)) !== null) { ... }
RECURSIVE DayLoop(_, _, _)
DayLoop(txt, lastIndex, days) ==
    Only({ IF ~match.ok THEN days
           ELSE Only({ DayLoop(txt, match.lastIndex, added) :
                       added \in { Only({ IF day # Null THEN SetAdd(days, day) ELSE days :
                                          day \in {normalizeDay(match.g[1])} }) } }) :
           match \in {exec(dayPattern, txt, lastIndex, TRUE)} })

\* The days are returned as the Set's array, in insertion order; null is <<>>
\* here and mapped to 'unknown' by the caller.
extractDays(txt) ==
    Only({ IF includes(lower, "daily") \/ includes(lower, "every day")
              \/ includes(lower, "7 days")
           THEN DAYS_OF_WEEK
           ELSE IF includes(lower, "weekday") THEN WEEKDAYS
           ELSE Only({ DayLoop(txt, 0, ranged) :
                       ranged \in { Only({ RangeLoop(txt, 0, seeded) :
                                           seeded \in { IF includes(lower, "weekend")
                                                        THEN <<"Saturday", "Sunday">>
                                                        ELSE <<>> } }) } }) :
           lower \in {toLowerCase(txt)} })

(***************************************************************************)
(* extractor.js: time extraction                                           *)
(***************************************************************************)
Digit == Cls(DigitChars)

\* \d{1,2}(?::\d{2})?\s*(?:<markers>)?
TimeToken(markers) ==
    Cat(<<Rep(Digit, 1, 2), Opt(Cat(<<Lit(":"), Rep(Digit, 2, 2)>>)),
          Star(Ws), Opt(Alt(markers))>>)

\* [-~to]+
TimeSep == Plus(Cls({"-", EnDash, "t", "o"}))

AmPm == <<Lit("am"), Lit("pm"), Lit("AM"), Lit("PM")>>
AmPmDotted == <<Lit("am"), Lit("pm"), Lit("a.m."), Lit("p.m.")>>

TimeRange(markers) ==
    Cat(<<Grp(1, TimeToken(markers)), Star(Ws), TimeSep, Star(Ws),
          Grp(2, TimeToken(markers))>>)

\* TIME_PATTERNS[0], TIME_PATTERNS[1] (both /gi)
TIME_PATTERNS ==
    << TimeRange(AmPm),
       Cat(<<Lit("happy"), Star(Ws), Lit("hour"), Opt(Cls({"s"})), Star(Ws),
             Opt(Cls({":", "."})), Star(Ws), TimeRange(AmPm)>>) >>

\* /happy\s*hour[^.]*?(<time>)\s*[-~to]+\s*(<time>)/i
happyHourContextPattern ==
    Cat(<<Lit("happy"), Star(Ws), Lit("hour"), LazyStar(NotCls({"."})),
          TimeRange(AmPmDotted)>>)

AmOrPm == Alt(<<Lit("AM"), Lit("PM")>>)

\* String.prototype.replace with a pattern without the g flag: the first
\* match is replaced by Repl(groups).
replace(txt, re, ci, Repl(_)) ==
    Only({ IF ~m.ok THEN txt
           ELSE SubSeq(txt, 1, m.index) \o Repl(m.g)
                \o SubSeq(txt, m.lastIndex + 1, Len(txt)) :
           m \in {exec(re, txt, 0, ci)} })

ReplMinutesMarker(g) == ":00 " \o g[1]
ReplMinutesDigits(g) == g[1] \o ":00 " \o g[2]
ReplSpacing(g)       == g[1] \o " " \o g[2]

\* if (/^\d{1,2}(AM|PM)$/i.test(t)) t = t.replace(/(AM|PM)/i, ':00 $1')
MinutesForCompact(t) ==
    IF test(Cat(<<Bol, Rep(Digit, 1, 2), Grp(1, AmOrPm), Eol>>), t, TRUE)
    THEN replace(t, Grp(1, AmOrPm), TRUE, ReplMinutesMarker)
    ELSE t

\* if (/^\d{1,2}\s*(AM|PM)$/i.test(t)) t = t.replace(/(\d+)\s*(AM|PM)/i, '$1:00 $2')
MinutesForSpaced(t) ==
    IF test(Cat(<<Bol, Rep(Digit, 1, 2), Star(Ws), Grp(1, AmOrPm), Eol>>), t, TRUE)
    THEN replace(t, Cat(<<Grp(1, Plus(Digit)), Star(Ws), Grp(2, AmOrPm)>>),
                 TRUE, ReplMinutesDigits)
    ELSE t

\* t = t.replace(/(\d)(AM|PM)/i, '$1 $2')
SpaceBeforeMarker(t) ==
    replace(t, Cat(<<Grp(1, Digit), Grp(2, AmOrPm)>>), TRUE, ReplSpacing)

\* let t = timeStr.trim().toUpperCase(), then the three rewrites in turn
normalizeTime(timeStr) ==
    IF timeStr = Null \/ timeStr = "" THEN Null
    ELSE Only({ SpaceBeforeMarker(t2) :
                t2 \in { Only({ MinutesForSpaced(t1) :
                                t1 \in { Only({ MinutesForCompact(t0) :
                                                t0 \in { Only({ toUpperCase(trimmed) :
                                                                trimmed \in {trim(timeStr)} }) } }) } }) } })

Times(s, e) == [start_time |-> s, end_time |-> e]

\* A pair that keeps the start of a match only.
TimesOfStartOnly(match) ==
    Only({ Times(s, Null) : s \in {normalizeTime(match.g[1])} })

\* The pair of normalized times of a match's two groups.
TimesOf(match) ==
    Only({ Times(s, e) : s \in {normalizeTime(match.g[1])},
                         e \in {normalizeTime(match.g[2])} })

\* for (const pattern of TIME_PATTERNS) { pattern.lastIndex = 0; ... }
RECURSIVE GeneralTimes(_, _)
GeneralTimes(txt, k) ==
    IF k > Len(TIME_PATTERNS) THEN Times(Null, Null)
    ELSE Only({ IF match.ok THEN TimesOf(match) ELSE GeneralTimes(txt, k + 1) :
                match \in {exec(TIME_PATTERNS[k], txt, 0, TRUE)} })

extractTimes(txt) ==
    Only({ IF happyHourContext.ok THEN TimesOf(happyHourContext)
           ELSE GeneralTimes(txt, 1) :
           happyHourContext \in {exec(happyHourContextPattern, txt, 0, TRUE)} })

(***************************************************************************)
(* extractor.js: deal extraction                                           *)
(***************************************************************************)
Words(ws) == Alt([i \in 1..Len(ws) |-> Lit(ws[i])])

\* \$\d+(?:\.\d{2})?
Price == Cat(<<Lit("$"), Plus(Digit), Opt(Cat(<<Lit("."), Rep(Digit, 2, 2)>>))>>)
\* half[\s-]?(?:off|price)\s+
HalfOff == Cat(<<Lit("half"), Opt(Cls(SpaceChars \cup {"-"})),
                 Alt(<<Lit("off"), Lit("price")>>), Plus(Ws)>>)
\* s?\s+(?:for\s+)?\$\d+
ForPrice == Cat(<<Opt(Lit("s")), Plus(Ws), Opt(Cat(<<Lit("for"), Plus(Ws)>>)),
                  Lit("$"), Plus(Digit)>>)
OptOff == Opt(Cat(<<Lit("off"), Plus(Ws)>>))

FOOD_PATTERNS ==
    << Cat(<<Price, Plus(Ws), OptOff,
             Words(<<"appetizer", "app", "wing", "taco", "nacho", "slider", "fries",
                     "pizza", "burger", "bite", "snack", "plate", "food">>)>>),
       Cat(<<HalfOff, Words(<<"appetizer", "app", "food", "menu", "bite", "snack">>)>>),
       Cat(<<Words(<<"appetizer", "app", "food", "bite", "snack">>), ForPrice>>),
       Cat(<<Price, Plus(Ws),
             Words(<<"taco", "wing", "slider", "pizza", "nacho", "burger", "bite">>)>>),
       Cat(<<Words(<<"free", "complimentary">>), Plus(Ws),
             Words(<<"appetizer", "food", "snack", "bite", "pizza">>)>>),
       Cat(<<Words(<<"food", "kitchen">>), Plus(Ws), Lit("special")>>) >>

DRINK_PATTERNS ==
    << Cat(<<Price, Plus(Ws), OptOff,
             Words(<<"beer", "draft", "pint", "well", "cocktail", "wine", "margarita",
                     "marg", "shot", "drink", "spirit", "pour", "rail", "domestic",
                     "craft", "import", "ipa", "lager", "ale">>)>>),
       Cat(<<HalfOff,
             Words(<<"beer", "draft", "pint", "well", "cocktail", "wine", "drink",
                     "bottle", "glass">>)>>),
       Cat(<<Words(<<"beer", "draft", "pint", "well", "cocktail", "wine", "margarita",
                     "drink", "pour">>), ForPrice>>),
       Cat(<<Price, Plus(Ws),
             Words(<<"domestic", "craft", "import", "house", "select", "featured">>),
             Plus(Ws), Words(<<"beer", "draft", "pint", "wine", "cocktail">>)>>),
       Cat(<<Alt(<<Cat(<<Lit("buy"), Plus(Ws), Lit("one")>>), Lit("bogo")>>), Plus(Ws),
             Opt(Cat(<<Lit("get"), Plus(Ws), Lit("one"), Plus(Ws)>>)),
             Words(<<"free", "half">>)>>),
       Cat(<<Words(<<"drink", "cocktail", "beer", "wine">>), Plus(Ws), Lit("special")>>) >>

\* while ((match = pattern.exec(text)) !== null) deals.add(match[0].trim())
RECURSIVE DealLoop(_, _, _, _)
DealLoop(txt, pattern, lastIndex, deals) ==
    Only({ IF ~match.ok THEN deals
           ELSE Only({ DealLoop(txt, pattern, match.lastIndex, added) :
                       added \in { Only({ SetAdd(deals, deal) :
                                          deal \in {trim(match.m0)} }) } }) :
           match \in {exec(pattern, txt, lastIndex, TRUE)} })

\* for (const pattern of patterns) { pattern.lastIndex = 0; ... }
RECURSIVE DealsFrom(_, _, _, _)
DealsFrom(txt, patterns, k, deals) ==
    IF k > Len(patterns) THEN deals
    ELSE Only({ DealsFrom(txt, patterns, k + 1, added) :
                added \in { Only({ DealLoop(txt, pattern, 0, deals) :
                                   pattern \in {patterns[k]} }) } })

\* null is <<>> here and mapped to 'unknown' by the caller
extractDeals(txt, patterns) == DealsFrom(txt, patterns, 1, <<>>)

(***************************************************************************)
(* extractor.js: extractHappyHourInfo                                      *)
(***************************************************************************)
Unknown == "unknown"

AllUnknown ==
    [days |-> Unknown, start_time |-> Unknown, end_time |-> Unknown,
     food_deals |-> Unknown, drink_deals |-> Unknown]

OrUnknownList(l) == IF l = <<>> THEN Unknown ELSE l
OrUnknown(v) == IF v = Null \/ v = "" THEN Unknown ELSE v

\* The short-circuit without its 'Unable to crawl' marker.
IsSentinelNoWebsiteOnly(rawText) ==
    rawText = "" \/ includes(rawText, "No website available")

IsSentinel(rawText) ==
    \/ rawText = ""
    \/ includes(rawText, "No website available")
    \/ includes(rawText, "Unable to crawl")

extractHappyHourInfo(rawText) ==
    IF IsSentinel(rawText) THEN AllUnknown
    ELSE Only({ [days        |-> OrUnknownList(days),
                 start_time  |-> OrUnknown(times.start_time),
                 end_time    |-> OrUnknown(times.end_time),
                 food_deals  |-> OrUnknownList(foodDeals),
                 drink_deals |-> OrUnknownList(drinkDeals)] :
                days \in {extractDays(rawText)},
                times \in {extractTimes(rawText)},
                foodDeals \in {extractDeals(rawText, FOOD_PATTERNS)},
                drinkDeals \in {extractDeals(rawText, DRINK_PATTERNS)} })

(***************************************************************************)
(* extractor.js: the same functions over the shared pattern objects.  li   *)
(* is the lastIndex of every pattern of TIME_PATTERNS (li.time),            *)
(* FOOD_PATTERNS (li.food) and DRINK_PATTERNS (li.drink); exec starts at    *)
(* the lastIndex the pattern has and leaves the index after the match, or  *)
(* 0 when it finds none.                                                   *)
(***************************************************************************)
\* A loop that does not reset the pattern before it uses it.
KeepLastIndex(indexes, k) == indexes

\* pattern.lastIndex = 0
ResetLastIndex(indexes, k) == [indexes EXCEPT ![k] = 0]

RECURSIVE GeneralTimesAt(_, _, _)
\* for (const pattern of TIME_PATTERNS) { pattern.lastIndex = 0; exec ... }
GeneralTimesAt(txt, k, indexes) ==
    IF k > Len(TIME_PATTERNS) THEN [times |-> Times(Null, Null), li |-> indexes]
    ELSE Only({ Only({ IF match.ok
                       THEN [times |-> TimesOf(match),
                             li |-> [reset EXCEPT ![k] = match.lastIndex]]
                       ELSE GeneralTimesAt(txt, k + 1, [reset EXCEPT ![k] = 0]) :
                       match \in {exec(TIME_PATTERNS[k], txt, reset[k], TRUE)} }) :
                reset \in {ResetLastIndex(indexes, k)} })

\* text.match(...) with a pattern without the g flag keeps no state
extractTimesAt(txt, indexes) ==
    Only({ IF happyHourContext.ok
           THEN [times |-> TimesOf(happyHourContext), li |-> indexes]
           ELSE GeneralTimesAt(txt, 1, indexes) :
           happyHourContext \in {exec(happyHourContextPattern, txt, 0, TRUE)} })

RECURSIVE DealLoopAt(_, _, _, _, _)
\* while ((match = pattern.exec(text)) !== null) deals.add(match[0].trim())
DealLoopAt(txt, patterns, k, indexes, deals) ==
    Only({ IF ~match.ok THEN [deals |-> deals, li |-> [indexes EXCEPT ![k] = 0]]
           ELSE Only({ DealLoopAt(txt, patterns, k,
                                  [indexes EXCEPT ![k] = match.lastIndex], added) :
                       added \in { Only({ SetAdd(deals, deal) :
                                          deal \in {trim(match.m0)} }) } }) :
           match \in {exec(patterns[k], txt, indexes[k], TRUE)} })

RECURSIVE DealsFromAt(_, _, _, _, _)
\* for (const pattern of patterns) { pattern.lastIndex = 0; ... }
DealsFromAt(txt, patterns, k, indexes, deals) ==
    IF k > Len(patterns) THEN [deals |-> deals, li |-> indexes]
    ELSE Only({ DealsFromAt(txt, patterns, k + 1, looped.li, looped.deals) :
                looped \in { Only({ DealLoopAt(txt, patterns, k, reset, deals) :
                                    reset \in {ResetLastIndex(indexes, k)} }) } })

extractDealsAt(txt, patterns, indexes) == DealsFromAt(txt, patterns, 1, indexes, <<>>)

\* extractHappyHourInfo and the lastIndex values it leaves
extractHappyHourInfoAt(rawText, indexes) ==
    IF IsSentinel(rawText) THEN [info |-> AllUnknown, li |-> indexes]
    ELSE Only({ [info |-> [days        |-> OrUnknownList(days),
                           start_time  |-> OrUnknown(times.times.start_time),
                           end_time    |-> OrUnknown(times.times.end_time),
                           food_deals  |-> OrUnknownList(foodDeals.deals),
                           drink_deals |-> OrUnknownList(drinkDeals.deals)],
                 li |-> [time |-> times.li, food |-> foodDeals.li,
                         drink |-> drinkDeals.li]] :
                days \in {extractDays(rawText)},
                times \in {extractTimesAt(rawText, indexes.time)},
                foodDeals \in {extractDealsAt(rawText, FOOD_PATTERNS, indexes.food)},
                drinkDeals \in {extractDealsAt(rawText, DRINK_PATTERNS, indexes.drink)} })

(***************************************************************************)
(* scraper.js: the live path's data                                        *)
(***************************************************************************)
SEARCHES ==
    << [query |-> "happy hour bars LoDo Denver", neighborhood |-> "LoDo"],
       [query |-> "happy hour bars LoHi Denver", neighborhood |-> "LoHi"] >>

\* if (scraped.length >= 10)
MinVenues == 10

\* the indexes of the first occurrence of each key, in ascending order
FirstOccurrences(keys) ==
    {i \in 1..Len(keys) : \A j \in 1..(i - 1) : keys[j] # keys[i]}
\* the elements of seq at the indexes idx, in ascending index order
AtIndexes(seq, idx) ==
    [k \in 1..Cardinality(idx) |->
        seq[CHOOSE i \in idx : Cardinality({j \in idx : j < i}) = k - 1]]

\* What page.evaluate returns for the cards of the results feed: a card
\* without a headline (name "") is left out; the others become
\* { name, address, neighborhood: nbhd, website }.
HasName(card) == card.name # ""
CardVenues(cards, nbhd) ==
    [i \in 1..Len(SelectSeq(cards, HasName)) |->
        [name |-> SelectSeq(cards, HasName)[i].name,
         address |-> SelectSeq(cards, HasName)[i].address,
         neighborhood |-> nbhd,
         website |-> SelectSeq(cards, HasName)[i].website]]

\* scraped.map((v) => ({ id: slugify(v.name), ..., address: v.address || '' }))
ScrapedVenue(v) ==
    [id |-> slugify(v.name), name |-> v.name,
     address |-> IF v.address = Null THEN "" ELSE v.address,
     neighborhood |-> v.neighborhood, website |-> v.website, scraped_at |-> Timestamp]

\* A filter that keeps every venue.
DeduplicateKeepAll(venues) == venues

\* const seen = new Set(); venues.filter(v => seen.has(v.id) ? false : (seen.add(v.id), true))
DeduplicateById(venues) ==
    AtIndexes(venues, FirstOccurrences([i \in 1..Len(venues) |-> venues[i].id]))

\* A count check that any scrape result passes.
EnoughScrapedAlways(scraped) == Len(scraped) >= 0

EnoughScraped(scraped) == Len(scraped) >= MinVenues

(***************************************************************************)
(* crawler.js: captures and link selection                                 *)
(***************************************************************************)
INTERESTING_KEYWORDS ==
    <<"happy", "special", "menu", "drink", "hour", "deal", "promo", "offer", "food">>
MAX_PAGES_PER_VENUE == 5

\* A website test that takes the empty string for a website.
HasWebsiteNotNull(venue) == venue.website # Null

\* venue.website is truthy
HasWebsite(venue) == venue.website # Null /\ venue.website # ""

\* `Venue: ${name}\nAddress: ${address}\nNeighborhood: ${neighborhood}\nWebsite: ${website}\n\n`
MetaHeader(venue, website) ==
    "Venue: " \o venue.name \o "\nAddress: " \o venue.address
    \o "\nNeighborhood: " \o venue.neighborhood \o "\nWebsite: " \o website \o "\n\n"

NoWebsiteCapture(venue) == MetaHeader(venue, "none") \o "No website available for crawling.\n"

\* generateFallbackRawFiles' text for one venue: Website: ${venue.website || 'none'}
FallbackCapture(venue) ==
    MetaHeader(venue, IF venue.website # Null /\ venue.website # "" THEN venue.website
                      ELSE "none")
    \o "Unable to crawl website. No raw text available.\n"

HomepageSection(homeText) == "=== HOMEPAGE ===\n" \o homeText \o "\n\n"
SubpageSection(link, subText) == "=== " \o link \o " ===\n" \o subText \o "\n\n"
SubpageFailure(link, message) ==
    "=== " \o link \o " ===\nFailed to fetch: " \o message \o "\n\n"
HomepageFailure(message) == "Failed to fetch homepage: " \o message \o "\n"

\* the 1-based index of the first occurrence of sub in s; 0 when absent
FirstIndex(s, sub) ==
    IF includes(s, sub)
    THEN CHOOSE i \in 1..Len(s) :
            /\ i + Len(sub) - 1 <= Len(s) /\ SubSeq(s, i, i + Len(sub) - 1) = sub
            /\ \A j \in 1..(i - 1) : SubSeq(s, j, j + Len(sub) - 1) # sub
    ELSE 0

HostEnd == {"/", ":", "?", "#"}

\* new URL(url).hostname for "<scheme>://<host>[:port][/path][?query][#hash]"
\* without user info: the host, ASCII lower-cased.  A URL with a scheme but
\* no "//" authority (mailto:, javascript:) has the hostname ""; a string
\* without a scheme makes new URL throw, which is Null here.
hostname(url) ==
    IF ~includes(url, ":") THEN Null
    ELSE IF ~includes(url, "://") THEN ""
    ELSE LET from == FirstIndex(url, "://") + 3
             to == CHOOSE q \in from..(Len(url) + 1) :
                      /\ q > Len(url) \/ SubSeq(url, q, q) \in HostEnd
                      /\ \A i \in from..(q - 1) : SubSeq(url, i, i) \notin HostEnd
         IN  toLowerCase(SubSeq(url, from, to - 1))

\* keywords.some(kw => lowerHref.includes(kw) || lowerText.includes(kw)) with
\* text = (a.textContent || '').trim().toLowerCase()
IsRelevant(a) ==
    \E k \in 1..Len(INTERESTING_KEYWORDS) :
        \/ includes(toLowerCase(a.href), INTERESTING_KEYWORDS[k])
        \/ includes(toLowerCase(trim(a.text)), INTERESTING_KEYWORDS[k])

\* u.hostname === base.hostname || u.hostname.endsWith('.' + base.hostname);
\* a href that new URL rejects is left out
SameSite(href, baseUrl) ==
    /\ hostname(href) # Null
    /\ \/ hostname(href) = hostname(baseUrl)
       \/ endsWith(hostname(href), "." \o hostname(baseUrl))

\* A slice that keeps every link.
SliceAll(unique) == unique

\* unique.slice(0, MAX_PAGES_PER_VENUE)
Slice(unique) ==
    SubSeq(unique, 1, IF Len(unique) < MAX_PAGES_PER_VENUE THEN Len(unique)
                      ELSE MAX_PAGES_PER_VENUE)

\* [...new Set(links)]
Unique(links) == AtIndexes(links, FirstOccurrences(links))

\* The links of a page; page.evaluates = FALSE: the page.evaluate call
\* throws.  Either that or a baseUrl that new URL rejects ends in the catch,
\* which returns [].
findRelevantLinks(page, baseUrl) ==
    IF ~page.evaluates \/ hostname(baseUrl) = Null THEN <<>>
    ELSE Only({ Slice(SelectSeq(unique, LAMBDA href : SameSite(href, baseUrl))) :
                unique \in { Only({ Unique([i \in 1..Len(relevant) |-> relevant[i].href]) :
                                    relevant \in {SelectSeq(page.anchors, IsRelevant)} }) } })

(***************************************************************************)
(* State                                                                   *)
(***************************************************************************)
VARIABLES
    text, ret, fnPc,        \* one call of an extractor function: argument, result
    venuesFile,             \* data/venues.json
    rawDir,                 \* data/raw/<id>.txt, by id; Null: no such file
    happyHoursFile,         \* data/happy_hours.json
    results, ePos, ePc,     \* extractor.js main: results, loop position
    lastIndexes,            \* the lastIndex of each shared g-flag pattern object
    sPc, sQuery,            \* scraper.js: position, index of the query at hand
    allVenues, venues,      \* scrapeGoogleMaps' allVenues; main's venues
    scraped,                \* what scrapeGoogleMaps returned, once it has
    ranQueries,             \* the queries whose search was started
    failedQuery,            \* the query during which an error was thrown, or 0
    found,                  \* per query, the venues its cards gave
    liveThrew,              \* scrapeGoogleMaps threw
    writeCount,             \* the calls of writeVenues
    cPc, cPos,              \* crawler.js: position, index of the venue at hand
    browser, context,       \* a browser is launched; a context is open
    allText, links, lPos,   \* crawlVenue's allText, relevantLinks, loop index
    web,                    \* what the venue sites serve
    opened,                 \* the venue indexes for which newContext was called
    navLog,                 \* the page.goto calls: <<venue index, url>>
    writeLog                \* the writeFileSync calls on data/raw

fnVars        == <<text, ret, fnPc>>
fileVars      == <<venuesFile, rawDir, happyHoursFile>>
extractorVars == <<results, ePos, ePc, lastIndexes>>
scraperVars   == <<sPc, sQuery, allVenues, venues, scraped, ranQueries, failedQuery,
                   found, liveThrew, writeCount>>
crawlerVars   == <<cPc, cPos, browser, context, allText, links, lPos, web, opened,
                   navLog, writeLog>>
vars == <<fnVars, fileVars, extractorVars, scraperVars, crawlerVars>>

NoFile     == [exists |-> FALSE, data |-> <<>>]
File(data) == [exists |-> TRUE, data |-> data]

NoWeb == [home |-> "", anchors |-> <<>>, sub |-> ""]
NotReturned == [returned |-> FALSE, venues |-> <<>>]

FnIdle        == text = "" /\ ret = Null /\ fnPc = "idle"
\* the patterns of TIME_PATTERNS, FOOD_PATTERNS and DRINK_PATTERNS when the
\* module is loaded: every lastIndex is 0
FreshLastIndexes ==
    [time  |-> [k \in 1..Len(TIME_PATTERNS) |-> 0],
     food  |-> [k \in 1..Len(FOOD_PATTERNS) |-> 0],
     drink |-> [k \in 1..Len(DRINK_PATTERNS) |-> 0]]

ExtractorIdle ==
    results = <<>> /\ ePos = 0 /\ ePc = "idle" /\ lastIndexes = FreshLastIndexes
ScraperIdle ==
    /\ sPc = "idle" /\ sQuery = 0 /\ allVenues = <<>> /\ venues = <<>>
    /\ scraped = NotReturned /\ ranQueries = {} /\ failedQuery = 0
    /\ found = <<<<>>, <<>>>> /\ liveThrew = FALSE /\ writeCount = 0
CrawlerIdle ==
    /\ cPc = "idle" /\ cPos = 0 /\ browser = FALSE /\ context = FALSE
    /\ allText = "" /\ links = <<>> /\ lPos = 0 /\ web = NoWeb
    /\ opened = {} /\ navLog = <<>> /\ writeLog = <<>>
NoFiles       == venuesFile = NoFile /\ rawDir = <<>> /\ happyHoursFile = NoFile

(***************************************************************************)
(* extractDays and extractTimes, each applied to one raw text              *)
(***************************************************************************)
DayWords ==
    {"Monday", "Tuesday", "Wednesday", "Thursday", "Friday", "Saturday", "Sunday",
     "Mon", "Tue", "Wed", "Thu", "Fri", "Sat", "Sun"}

RangeSeparators == {"-", EnDash, " thru ", " through ", " to "}

\* what stands before and after the range phrase
DayContexts ==
    { <<"", "">>, <<"Happy Hour ", " 3-6pm">>, <<"Open ", ", brunch Sunday">>,
      <<"Specials daily, ", "">>, <<"Weekend brunch. ", ".">>,
      <<"", " (weekdays only)">> }

DayTexts ==
    { c[1] \o d1 \o sep \o d2 \o c[2] :
        d1 \in DayWords, d2 \in DayWords, sep \in RangeSeparators, c \in DayContexts }
    \cup {"", "Happy Hour 3-6pm", "Tues & Thurs", "Open every day", "Saturdays"}

InitDays ==
    /\ text \in DayTexts /\ ret = Null /\ fnPc = "call"
    /\ NoFiles /\ ExtractorIdle /\ ScraperIdle /\ CrawlerIdle

CallExtractDays ==
    /\ fnPc = "call"
    /\ ret' = extractDays(text)
    /\ fnPc' = "done"
    /\ UNCHANGED <<text, fileVars, extractorVars, scraperVars, crawlerVars>>

SpecDays == InitDays /\ [][CallExtractDays]_vars

TimeTokens1 == {"3", "3pm", "3 pm", "3:30", "3:30pm", "11am", "4 p.m."}
TimeTokens2 == {"6", "6pm", "6 PM", "6:30", "6:30pm", "2am", "7 p.m."}
TimeSeparators == {"-", " - ", " to ", EnDash}
TimeContexts ==
    { <<"", "">>, <<"Happy Hour ", "">>, <<"Happy hour: ", " daily">>,
      <<"Happy Hour. Open ", ".">>, <<"Open ", " Mon-Fri">> }

TimeTexts ==
    { c[1] \o t1 \o sep \o t2 \o c[2] :
        t1 \in TimeTokens1, t2 \in TimeTokens2, sep \in TimeSeparators, c \in TimeContexts }
    \cup {"", "Happy Hour Monday-Friday", "Call 303-555-1234", "1600 17th St"}

InitTimes ==
    /\ text \in TimeTexts /\ ret = Null /\ fnPc = "call"
    /\ NoFiles /\ ExtractorIdle /\ ScraperIdle /\ CrawlerIdle

CallExtractTimes ==
    /\ fnPc = "call"
    /\ ret' = extractTimes(text)
    /\ fnPc' = "done"
    /\ UNCHANGED <<text, fileVars, extractorVars, scraperVars, crawlerVars>>

SpecTimes == InitTimes /\ [][CallExtractTimes]_vars

(***************************************************************************)
(* extractor.js main: venues.json and data/raw -> happy_hours.json         *)
(***************************************************************************)
MaxVenues == 2

ListsOver(S, n) == UNION {[1..k -> S] : k \in 0..n}

\* two venues of the curated list: Retro Room (no website) and Linger
ExtractorVenues == {getFallbackVenues[6], getFallbackVenues[13]}

HappyHourPage == "Happy Hour Monday-Friday 3pm-6pm. $5 drafts, half off appetizers"

\* what data/raw/<id>.txt may hold when the extractor starts
RawFiles ==
    { Null,
      "",
      "Venue: Retro Room\nWebsite: none\n\nNo website available for crawling.\n",
      "=== HOMEPAGE ===\n" \o HappyHourPage \o "\n",
      HappyHourPage \o "\nNo website available on Sunday",
      "Unable to crawl website. " \o HappyHourPage,
      "unable to crawl? Sat-Sun 11am-2pm, $3 tacos" }

InitExtractor ==
    /\ \/ venuesFile = NoFile
       \/ \E l \in ListsOver(ExtractorVenues, MaxVenues) : venuesFile = File(l)
    /\ rawDir \in [{v.id : v \in ExtractorVenues} -> RawFiles]
    /\ happyHoursFile = NoFile
    /\ results = <<>> /\ ePos = 0 /\ ePc = "start"
    /\ lastIndexes = FreshLastIndexes
    /\ FnIdle /\ ScraperIdle /\ CrawlerIdle

\* if (!fs.existsSync(VENUES_FILE)) process.exit(1); venues = JSON.parse(...)
\* The extractor is the stage after the crawler: it starts when no crawler
\* run is under way.
ExtractorStart ==
    /\ ePc = "start"
    /\ cPc \in {"idle", "done"}
    /\ IF venuesFile.exists
       THEN ePc' = "loop" /\ ePos' = 1
       ELSE ePc' = "exit1" /\ ePos' = ePos
    /\ UNCHANGED <<results, lastIndexes, fileVars, fnVars, scraperVars, crawlerVars>>

\* let rawText = ''; if (fs.existsSync(rawFile)) rawText = fs.readFileSync(rawFile)
ReadRaw(id) ==
    IF id \in DOMAIN rawDir /\ rawDir[id] # Null THEN rawDir[id] ELSE ""

\* results.push({ id, name, address, neighborhood, website, happy_hour })
ResultOf(venue, happyHour) ==
    [id |-> venue.id, name |-> venue.name, address |-> venue.address,
     neighborhood |-> venue.neighborhood, website |-> venue.website,
     happy_hour |-> happyHour]

\* A loop body that leaves out the venues without a raw file.
ExtractorVenueSkipMissing ==
    /\ ePc = "loop"
    /\ ePos <= Len(venuesFile.data)
    /\ \E ex \in {extractHappyHourInfoAt(ReadRaw(venuesFile.data[ePos].id), lastIndexes)} :
          /\ results' = IF ReadRaw(venuesFile.data[ePos].id) = "" THEN results
                        ELSE Append(results, ResultOf(venuesFile.data[ePos], ex.info))
          /\ lastIndexes' = ex.li
    /\ ePos' = ePos + 1
    /\ UNCHANGED <<ePc, fileVars, fnVars, scraperVars, crawlerVars>>

\* one iteration of for (const venue of venues) { ... results.push({...}) }
ExtractorVenue ==
    /\ ePc = "loop"
    /\ ePos <= Len(venuesFile.data)
    /\ \E ex \in {extractHappyHourInfoAt(ReadRaw(venuesFile.data[ePos].id), lastIndexes)} :
          /\ results' = Append(results, ResultOf(venuesFile.data[ePos], ex.info))
          /\ lastIndexes' = ex.li
    /\ ePos' = ePos + 1
    /\ UNCHANGED <<ePc, fileVars, fnVars, scraperVars, crawlerVars>>

\* fs.writeFileSync(OUTPUT_FILE, JSON.stringify(results, null, 2))
ExtractorWrite ==
    /\ ePc = "loop"
    /\ ePos > Len(venuesFile.data)
    /\ happyHoursFile' = File(results)
    /\ ePc' = "done"
    /\ UNCHANGED <<results, ePos, lastIndexes, venuesFile, rawDir, fnVars, scraperVars,
                   crawlerVars>>

NextExtractor == ExtractorStart \/ ExtractorVenue \/ ExtractorWrite

SpecExtractor == InitExtractor /\ [][NextExtractor]_vars

(***************************************************************************)
(* scraper.js: scrapeGoogleMaps and main                                   *)
(***************************************************************************)
MaxCards == 7

Card(name, address, website) == [name |-> name, address |-> address, website |-> website]

\* The cards a results feed may show, in feed order; the feed of a run is
\* the first n of them.  A card with the name "" has no headline element.
FeedCards ==
    << << Card("Linger", "2030 W 30th Ave, Denver, CO 80211", "https://lingerdenver.com"),
          Card("Star Bar", "2137 Larimer St, Denver, CO 80205", Null),
          Card("LINGER!", "", Null),
          Card("El Camino", "3628 W 32nd Ave, Denver, CO 80211", "https://elcaminotavern.com"),
          Card("", "", Null),
          Card("Star  Bar", "", "https://starbardenver.com"),
          Card("Ale House", "2501 16th St, Denver, CO 80211", Null),
          Card("Wynkoop", "1634 18th St, Denver, CO 80202", "https://wynkoop.com") >>,
       << Card("Avanti F&B", "3200 Pecos St, Denver, CO 80211", "https://avantifandb.com"),
          Card("Linger", "2030 W 30th Ave, Denver, CO 80211", "https://lingerdenver.com"),
          Card("Postino", "2715 17th St, Denver, CO 80211", Null),
          Card("Root Down", "1600 W 33rd Ave, Denver, CO 80211", "https://rootdowndenver.com"),
          Card("avanti f b", "", Null),
          Card("Bar Dough", "2227 W 32nd Ave, Denver, CO 80211", "https://bardough.com"),
          Card("Recess", "2715 17th St, Denver, CO 80211", Null),
          Card("Ale House", "2501 16th St, Denver, CO 80211", Null) >> >>

Feeds(q) ==
    {SubSeq(FeedCards[q], 1, n) :
        n \in 0..(IF MaxCards < Len(FeedCards[q]) THEN MaxCards ELSE Len(FeedCards[q]))}

\* the awaited calls of one pass of the query loop, in order
QuerySteps ==
    <<"newContext", "newPage", "goto", "waitForSelector", "scroll", "cards", "closeContext">>

InitScraper ==
    /\ sPc = "start" /\ sQuery = 0 /\ allVenues = <<>> /\ venues = <<>>
    /\ scraped = NotReturned /\ ranQueries = {} /\ failedQuery = 0
    /\ found = <<<<>>, <<>>>> /\ liveThrew = FALSE /\ writeCount = 0
    /\ NoFiles /\ FnIdle /\ ExtractorIdle /\ CrawlerIdle

\* chromium.launch succeeds, at once or with the pre-installed binary
LaunchBrowser ==
    /\ sPc = "start"
    /\ sPc' = "query" /\ sQuery' = 1
    /\ UNCHANGED <<allVenues, venues, scraped, ranQueries, failedQuery, found, liveThrew,
                   writeCount, fileVars, fnVars, extractorVars, crawlerVars>>

\* both launches throw: scrapeGoogleMaps throws before its try block
LaunchFails ==
    /\ sPc = "start"
    /\ liveThrew' = TRUE
    /\ sPc' = "catch"
    /\ UNCHANGED <<sQuery, allVenues, venues, scraped, ranQueries, failedQuery, found,
                   writeCount, fileVars, fnVars, extractorVars, crawlerVars>>

\* one pass of for (const { query, neighborhood } of SEARCHES) without error
RunQuery ==
    /\ sPc = "query"
    /\ sQuery <= Len(SEARCHES)
    /\ \E cards \in Feeds(sQuery) :
          /\ allVenues' = allVenues \o CardVenues(cards, SEARCHES[sQuery].neighborhood)
          /\ found' = [found EXCEPT ![sQuery] =
                          CardVenues(cards, SEARCHES[sQuery].neighborhood)]
    /\ ranQueries' = ranQueries \cup {sQuery}
    /\ sQuery' = sQuery + 1
    /\ UNCHANGED <<sPc, venues, scraped, failedQuery, liveThrew, writeCount,
                   fileVars, fnVars, extractorVars, crawlerVars>>

\* A pass whose error is swallowed: the loop goes on with the next query.
QueryFailsSkipped ==
    /\ sPc = "query"
    /\ sQuery <= Len(SEARCHES)
    /\ \E k \in 1..Len(QuerySteps) :
          ranQueries' = IF k >= 3 THEN ranQueries \cup {sQuery} ELSE ranQueries
    /\ failedQuery' = sQuery
    /\ sQuery' = sQuery + 1
    /\ UNCHANGED <<sPc, allVenues, venues, scraped, found, liveThrew, writeCount,
                   fileVars, fnVars, extractorVars, crawlerVars>>

\* A pass in which the k-th awaited call throws.  Nothing in the loop
\* catches: the finally block closes the browser and scrapeGoogleMaps
\* throws.  An error of context.close() comes after allVenues.push.
QueryFails ==
    /\ sPc = "query"
    /\ sQuery <= Len(SEARCHES)
    /\ \E k \in 1..Len(QuerySteps) :
          /\ ranQueries' = IF k >= 3 THEN ranQueries \cup {sQuery} ELSE ranQueries
          /\ \E cards \in Feeds(sQuery) :
                LET got == IF QuerySteps[k] = "closeContext"
                           THEN CardVenues(cards, SEARCHES[sQuery].neighborhood)
                           ELSE <<>>
                IN  /\ allVenues' = allVenues \o got
                    /\ found' = [found EXCEPT ![sQuery] = got]
    /\ failedQuery' = sQuery
    /\ liveThrew' = TRUE
    /\ sPc' = "catch"
    /\ UNCHANGED <<sQuery, venues, scraped, writeCount,
                   fileVars, fnVars, extractorVars, crawlerVars>>

\* after the loop: finally { await browser.close() }; return allVenues
ReturnScraped ==
    /\ sPc = "query"
    /\ sQuery > Len(SEARCHES)
    /\ \E closes \in BOOLEAN :
          IF closes
          THEN /\ scraped' = [returned |-> TRUE, venues |-> allVenues]
               /\ sPc' = "check"
               /\ UNCHANGED liveThrew
          ELSE /\ liveThrew' = TRUE
               /\ sPc' = "catch"
               /\ UNCHANGED scraped
    /\ UNCHANGED <<sQuery, allVenues, venues, ranQueries, failedQuery, found, writeCount,
                   fileVars, fnVars, extractorVars, crawlerVars>>

\* if (scraped.length >= 10) { map; de-duplicate } else venues = getFallbackVenues()
MainCheck ==
    /\ sPc = "check"
    /\ venues' = IF EnoughScraped(scraped.venues)
                 THEN DeduplicateById([i \in 1..Len(scraped.venues) |->
                                          ScrapedVenue(scraped.venues[i])])
                 ELSE getFallbackVenues
    /\ sPc' = "write"
    /\ UNCHANGED <<sQuery, allVenues, scraped, ranQueries, failedQuery, found, liveThrew,
                   writeCount, fileVars, fnVars, extractorVars, crawlerVars>>

\* catch (err) { venues = getFallbackVenues() }
MainCatch ==
    /\ sPc = "catch"
    /\ venues' = getFallbackVenues
    /\ sPc' = "write"
    /\ UNCHANGED <<sQuery, allVenues, scraped, ranQueries, failedQuery, found, liveThrew,
                   writeCount, fileVars, fnVars, extractorVars, crawlerVars>>

\* writeVenues(venues)
WriteVenues ==
    /\ sPc = "write"
    /\ venuesFile' = File(venues)
    /\ writeCount' = writeCount + 1
    /\ sPc' = "done"
    /\ UNCHANGED <<sQuery, allVenues, venues, scraped, ranQueries, failedQuery, found,
                   liveThrew, rawDir, happyHoursFile, fnVars, extractorVars, crawlerVars>>

NextScraper ==
    \/ LaunchBrowser \/ LaunchFails \/ RunQuery \/ QueryFails \/ ReturnScraped
    \/ MainCheck \/ MainCatch \/ WriteVenues

SpecScraper == InitScraper /\ [][NextScraper]_vars

(***************************************************************************)
(* crawler.js: main, crawlVenue, generateFallbackRawFiles                  *)
(***************************************************************************)
\* err.message of a failed navigation
ErrorMessages == {"Timeout 15000ms exceeded."}

\* a venue of venues.json whose website is the empty string
TestBar ==
    [id |-> "test-bar", name |-> "Test Bar", address |-> "1 Main St, Denver, CO 80202",
     neighborhood |-> "LoDo", website |-> "", scraped_at |-> Timestamp]

\* Retro Room (website null), Linger (with a website) and Test Bar
CrawlerVenues == ExtractorVenues \cup {TestBar}

Anchor(href, txt) == [href |-> href, text |-> txt]

RECURSIVE WriteAll(_, _, _)
\* the files after generateFallbackRawFiles has written for venues[1..k]
WriteAll(list, k, files) ==
    IF k = 0 THEN files
    ELSE [WriteAll(list, k - 1, files) EXCEPT ![list[k].id] = FallbackCapture(list[k])]

WriteEntry(pos, venue, txt, by) == [pos |-> pos, id |-> venue.id, text |-> txt, by |-> by]

\* if (!fs.existsSync(VENUES_FILE)) process.exit(1); return JSON.parse(...)
CrawlerStart ==
    /\ cPc = "start"
    /\ cPc' = IF venuesFile.exists THEN "launch" ELSE "exit1"
    /\ UNCHANGED <<cPos, browser, context, allText, links, lPos, web, opened, navLog,
                   writeLog, fileVars, fnVars, extractorVars, scraperVars>>

\* browser = await chromium.launch(...); a throw goes to main's catch
Launch ==
    /\ cPc = "launch"
    /\ \E launches \in BOOLEAN :
          IF launches
          THEN browser' = TRUE /\ cPc' = "loop" /\ cPos' = 1
          ELSE browser' = browser /\ cPc' = "catch" /\ cPos' = cPos
    /\ UNCHANGED <<context, allText, links, lPos, web, opened, navLog,
                   writeLog, fileVars, fnVars, extractorVars, scraperVars>>

\* crawlVenue for a venue without a website: write the sentinel and return;
\* writeFileSync may throw, which goes to main's catch
CrawlVenueNoWebsite ==
    /\ cPc = "loop"
    /\ cPos <= Len(venuesFile.data)
    /\ ~HasWebsite(venuesFile.data[cPos])
    /\ \E writes \in BOOLEAN :
          IF writes
          THEN /\ rawDir' = [rawDir EXCEPT ![venuesFile.data[cPos].id] =
                                NoWebsiteCapture(venuesFile.data[cPos])]
               /\ writeLog' = Append(writeLog,
                                     WriteEntry(cPos, venuesFile.data[cPos],
                                                NoWebsiteCapture(venuesFile.data[cPos]),
                                                "crawlVenue"))
               /\ cPos' = cPos + 1 /\ cPc' = cPc
          ELSE /\ cPc' = "catch"
               /\ UNCHANGED <<rawDir, writeLog, cPos>>
    /\ UNCHANGED <<browser, context, allText, links, lPos, web, opened, navLog,
                   venuesFile, happyHoursFile, fnVars, extractorVars, scraperVars>>

\* crawlVenue for a venue with a website, up to browser.newContext
CrawlVenueBegin ==
    /\ cPc = "loop"
    /\ cPos <= Len(venuesFile.data)
    /\ HasWebsite(venuesFile.data[cPos])
    /\ allText' = MetaHeader(venuesFile.data[cPos], venuesFile.data[cPos].website)
    /\ cPc' = "newContext"
    /\ UNCHANGED <<cPos, browser, context, links, lPos, web, opened, navLog,
                   writeLog, fileVars, fnVars, extractorVars, scraperVars>>

\* const context = await browser.newContext(...): outside the try block
NewContext ==
    /\ cPc = "newContext"
    /\ opened' = opened \cup {cPos}
    /\ \E opens \in BOOLEAN :
          IF opens THEN context' = TRUE /\ cPc' = "newPage"
          ELSE context' = context /\ cPc' = "catch"
    /\ UNCHANGED <<cPos, browser, allText, links, lPos, web, navLog,
                   writeLog, fileVars, fnVars, extractorVars, scraperVars>>

\* const page = await context.newPage(): outside the try block
NewPage ==
    /\ cPc = "newPage"
    /\ \E opens \in BOOLEAN : cPc' = IF opens THEN "home" ELSE "catch"
    /\ UNCHANGED <<cPos, browser, context, allText, links, lPos, web, opened, navLog,
                   writeLog, fileVars, fnVars, extractorVars, scraperVars>>

\* page.goto(venue.website) succeeds: the homepage section (extractPageText
\* gives the page's text, or '' when its evaluate throws) and the links
HomepageFetched ==
    /\ cPc = "home"
    /\ navLog' = Append(navLog, <<cPos, venuesFile.data[cPos].website>>)
    /\ \E homeText \in {web.home, ""}, evaluates \in BOOLEAN :
          /\ allText' = allText \o HomepageSection(homeText)
          /\ links' = findRelevantLinks([evaluates |-> evaluates, anchors |-> web.anchors],
                                        venuesFile.data[cPos].website)
    /\ lPos' = 1
    /\ cPc' = "sub"
    /\ UNCHANGED <<cPos, browser, context, web, opened,
                   writeLog, fileVars, fnVars, extractorVars, scraperVars>>

\* page.goto(venue.website) throws: the outer catch notes it, no subpage
HomepageFailed ==
    /\ cPc = "home"
    /\ navLog' = Append(navLog, <<cPos, venuesFile.data[cPos].website>>)
    /\ \E message \in ErrorMessages : allText' = allText \o HomepageFailure(message)
    /\ cPc' = "close"
    /\ UNCHANGED <<cPos, browser, context, links, lPos, web, opened,
                   writeLog, fileVars, fnVars, extractorVars, scraperVars>>

\* one pass of for (const link of relevantLinks) whose page.goto succeeds
SubpageFetched ==
    /\ cPc = "sub"
    /\ lPos <= Len(links)
    /\ navLog' = Append(navLog, <<cPos, links[lPos]>>)
    /\ \E subText \in {web.sub, ""} :
          allText' = allText \o SubpageSection(links[lPos], subText)
    /\ lPos' = lPos + 1
    /\ UNCHANGED <<cPc, cPos, browser, context, links, web, opened,
                   writeLog, fileVars, fnVars, extractorVars, scraperVars>>

\* A failing subpage that ends the subpage loop: the failure is noted and
\* the later links are not fetched.
SubpageFailedAborts ==
    /\ cPc = "sub"
    /\ lPos <= Len(links)
    /\ navLog' = Append(navLog, <<cPos, links[lPos]>>)
    /\ \E message \in ErrorMessages :
          allText' = allText \o SubpageFailure(links[lPos], message)
    /\ lPos' = lPos + 1
    /\ cPc' = "close"
    /\ UNCHANGED <<cPos, browser, context, links, web, opened,
                   writeLog, fileVars, fnVars, extractorVars, scraperVars>>

\* one pass whose page.goto throws: the inner catch notes it
SubpageFailed ==
    /\ cPc = "sub"
    /\ lPos <= Len(links)
    /\ navLog' = Append(navLog, <<cPos, links[lPos]>>)
    /\ \E message \in ErrorMessages :
          allText' = allText \o SubpageFailure(links[lPos], message)
    /\ lPos' = lPos + 1
    /\ UNCHANGED <<cPc, cPos, browser, context, links, web, opened,
                   writeLog, fileVars, fnVars, extractorVars, scraperVars>>

\* finally { await context.close() }: a throw leaves crawlVenue
CloseContext ==
    /\ \/ cPc = "close"
       \/ cPc = "sub" /\ lPos > Len(links)
    /\ \E closes \in BOOLEAN :
          IF closes THEN context' = FALSE /\ cPc' = "write"
          ELSE context' = context /\ cPc' = "catch"
    /\ UNCHANGED <<cPos, browser, allText, links, lPos, web, opened, navLog,
                   writeLog, fileVars, fnVars, extractorVars, scraperVars>>

\* fs.writeFileSync(outputFile, allText); crawlVenue returns
WriteCapture ==
    /\ cPc = "write"
    /\ \E writes \in BOOLEAN :
          IF writes
          THEN /\ rawDir' = [rawDir EXCEPT ![venuesFile.data[cPos].id] = allText]
               /\ writeLog' = Append(writeLog,
                                     WriteEntry(cPos, venuesFile.data[cPos], allText,
                                                "crawlVenue"))
               /\ cPos' = cPos + 1 /\ cPc' = "loop"
               /\ allText' = "" /\ links' = <<>> /\ lPos' = 0
          ELSE /\ cPc' = "catch"
               /\ UNCHANGED <<rawDir, writeLog, cPos, allText, links, lPos>>
    /\ UNCHANGED <<browser, context, web, opened, navLog,
                   venuesFile, happyHoursFile, fnVars, extractorVars, scraperVars>>

\* the venue loop is through
LoopDone ==
    /\ cPc = "loop"
    /\ cPos > Len(venuesFile.data)
    /\ cPc' = "finally"
    /\ UNCHANGED <<cPos, browser, context, allText, links, lPos, web, opened, navLog,
                   writeLog, fileVars, fnVars, extractorVars, scraperVars>>

\* catch (err) { } with no call of generateFallbackRawFiles
GenerateFallbackRawFilesNothing ==
    /\ cPc = "catch"
    /\ cPc' = "finally"
    /\ UNCHANGED <<cPos, browser, context, allText, links, lPos, web, opened, navLog,
                   writeLog, fileVars, fnVars, extractorVars, scraperVars>>

\* catch (err) { generateFallbackRawFiles(venues) }: a file for every venue
\* of the list; the k+1-st writeFileSync may throw, which leaves main after
\* its finally block
GenerateFallbackRawFiles ==
    /\ cPc = "catch"
    /\ \E k \in 0..Len(venuesFile.data) :
          /\ rawDir' = WriteAll(venuesFile.data, k, rawDir)
          /\ writeLog' = writeLog \o
                [i \in 1..k |-> WriteEntry(i, venuesFile.data[i],
                                           FallbackCapture(venuesFile.data[i]), "fallback")]
          /\ cPc' = IF k = Len(venuesFile.data) THEN "finally" ELSE "rethrow"
    /\ UNCHANGED <<cPos, browser, context, allText, links, lPos, web, opened, navLog,
                   venuesFile, happyHoursFile, fnVars, extractorVars, scraperVars>>

\* finally { if (browser) await browser.close() }; an error on the way out
\* ends in main().catch: process.exit(1)
CloseBrowser ==
    /\ cPc \in {"finally", "rethrow"}
    /\ \E closes \in BOOLEAN :
          /\ browser' = (browser /\ ~closes)
          /\ cPc' = IF cPc = "finally" /\ (closes \/ ~browser) THEN "done" ELSE "exit1"
    /\ UNCHANGED <<cPos, context, allText, links, lPos, web, opened, navLog,
                   writeLog, fileVars, fnVars, extractorVars, scraperVars>>

NextCrawler ==
    \/ CrawlerStart \/ Launch \/ CrawlVenueNoWebsite \/ CrawlVenueBegin \/ NewContext
    \/ NewPage \/ HomepageFetched \/ HomepageFailed \/ SubpageFetched \/ SubpageFailed
    \/ CloseContext \/ WriteCapture \/ LoopDone \/ GenerateFallbackRawFiles
    \/ CloseBrowser

\* the crawler's own state when it starts
CrawlerStarts ==
    /\ cPc = "start" /\ cPos = 0 /\ browser = FALSE /\ context = FALSE
    /\ allText = "" /\ links = <<>> /\ lPos = 0
    /\ opened = {} /\ navLog = <<>> /\ writeLog = <<>>

(***************************************************************************)
(* The crawler and then the extractor, over small sites                    *)
(***************************************************************************)
PipelineWebs ==
    { [home |-> HappyHourPage,
       anchors |-> <<Anchor("https://lingerdenver.com/happy-hour", "Happy Hour"),
                     Anchor("https://www.opentable.com/linger", "Reserve")>>,
       sub |-> "Tues & Thurs 4pm-7pm, $3 tacos"],
      NoWeb }

\* venues.json as the scraper's main writes it: no two venues share an id
DistinctListsOver(S, n) ==
    {l \in ListsOver(S, n) : \A i, j \in 1..Len(l) : i # j => l[i].id # l[j].id}

InitPipeline ==
    /\ \/ venuesFile = NoFile
       \/ \E l \in DistinctListsOver(CrawlerVenues, MaxVenues) : venuesFile = File(l)
    /\ rawDir = [id \in {v.id : v \in CrawlerVenues} |-> Null]
    /\ happyHoursFile = NoFile
    /\ web \in PipelineWebs
    /\ CrawlerStarts
    /\ results = <<>> /\ ePos = 0 /\ ePc = "start"
    /\ lastIndexes = FreshLastIndexes
    /\ FnIdle /\ ScraperIdle

NextPipeline == NextCrawler \/ NextExtractor

SpecPipeline == InitPipeline /\ [][NextPipeline]_vars

(***************************************************************************)
(* The crawler over one venue's site with many anchors                     *)
(***************************************************************************)
MaxAnchors == 8

\* the anchors a homepage of lingerdenver.com may hold, in document order
SiteAnchors ==
    << Anchor("https://lingerdenver.com/happy-hour", "Happy Hour"),
       Anchor("https://lingerdenver.com/menu", "  Menus "),
       Anchor("https://lingerdenver.com/happy-hour", "Specials"),
       Anchor("https://order.lingerdenver.com/food", "Order online"),
       Anchor("https://notlingerdenver.com/menu", "Menu"),
       Anchor("https://lingerdenver.com/Drinks", "Bar"),
       Anchor("https://lingerdenver.com/events?promo=1", "Events"),
       Anchor("https://lingerdenver.com/contact", "Groups & OFFERS"),
       Anchor("https://lingerdenver.com/hours", "Visit"),
       Anchor("https://www.opentable.com/linger-deals", "Reserve"),
       Anchor("https://lingerdenver.com/about", "About"),
       Anchor("mailto:deals@lingerdenver.com", "Email us"),
       Anchor("specials", "Specials") >>

\* the homepages: a run of at most MaxAnchors consecutive anchors
LinksWebs ==
    { [home |-> "Welcome", anchors |-> SubSeq(SiteAnchors, w[1], w[2]), sub |-> ""] :
        w \in { w \in (1..Len(SiteAnchors)) \X (0..Len(SiteAnchors)) :
                    w[2] >= w[1] - 1 /\ w[2] - w[1] + 1 <= MaxAnchors } }

InitLinks ==
    /\ \E v \in CrawlerVenues : venuesFile = File(<<v>>)
    /\ rawDir = [id \in {v.id : v \in CrawlerVenues} |-> Null]
    /\ happyHoursFile = NoFile
    /\ web \in LinksWebs
    /\ CrawlerStarts
    /\ FnIdle /\ ScraperIdle /\ ExtractorIdle

SpecLinks == InitLinks /\ [][NextCrawler]_vars

(***************************************************************************)
(* Claims on day and time extraction                                       *)
(***************************************************************************)
DayPrefixes == {"mon", "tue", "wed", "thu", "fri", "sat", "sun"}
NoDayWord(s) == \A d \in DayPrefixes : ~includes(toLowerCase(s), d)
NoWeekPhrase(s) ==
    \A w \in {"daily", "every day", "7 days", "weekday", "weekend"} :
        ~includes(toLowerCase(s), w)
\* s holds "Monday-Friday" and no day word before or after it
OnlyMondayFriday(s) ==
    \E i \in 1..Len(s) :
        /\ i + 12 <= Len(s)
        /\ SubSeq(s, i, i + 12) = "Monday-Friday"
        /\ NoDayWord(SubSeq(s, 1, i - 1))
        /\ NoDayWord(SubSeq(s, i + 13, Len(s)))

\* C5: a raw text that contains "Monday-Friday", with no whole-week, weekday
\* or weekend phrase and no other day word, yields exactly Monday, Tuesday,
\* Wednesday, Thursday, Friday, each once, in that order.
C5_MondayFriday ==
    (fnPc = "done" /\ OnlyMondayFriday(text) /\ NoWeekPhrase(text))
        => ret = <<"Monday", "Tuesday", "Wednesday", "Thursday", "Friday">>

C5_Witness ==
    /\ fnPc = "done"
    /\ text = "Happy Hour Monday-Friday 3-6pm"
    /\ OnlyMondayFriday(text) /\ NoWeekPhrase(text)
    /\ Len(ret) = 5

\* the position (0..6, Monday first) of the day a word names
DayIndexOf(w) ==
    CHOOSE k \in 0..6 :
        SubSeq(toLowerCase(DAYS_OF_WEEK[k + 1]), 1, 3) = SubSeq(toLowerCase(w), 1, 3)
\* the days from position s cyclically forward through position e
CyclicRange(s, e) == {DAYS_OF_WEEK[((s + k) % 7) + 1] : k \in 0..((e - s + 7) % 7)}
Elements(seq) == {seq[i] : i \in 1..Len(seq)}

\* C6: a text that is one day range, "<start><separator><end>" with full
\* names or abbreviations and no other day word, yields exactly the days from
\* start cyclically forward through end, both included (all seven when end
\* is the day just before start).
C6_RangeExpansion ==
    fnPc = "done" =>
        \A d1 \in DayWords, d2 \in DayWords :
            ( /\ startsWith(text, d1) /\ endsWith(text, d2)
              /\ Len(text) > Len(d1) + Len(d2)
              /\ SubSeq(text, Len(d1) + 1, Len(text) - Len(d2)) \in RangeSeparators )
            => Elements(ret) = CyclicRange(DayIndexOf(d1), DayIndexOf(d2))

IsNormalizedTime(t) ==
    test(Cat(<<Bol, Rep(Digit, 1, 2), Lit(":"), Rep(Digit, 2, 2), Lit(" "), AmOrPm, Eol>>),
         t, FALSE)

\* C4: every start_time and end_time extractTimes produces has a minutes
\* component and a space before the AM/PM marker, and "Happy Hour 3-6pm"
\* yields "3:00 PM" and "6:00 PM".
C4_TimesNormalized ==
    fnPc = "done" =>
        /\ ret.start_time # Null => IsNormalizedTime(ret.start_time)
        /\ ret.end_time # Null => IsNormalizedTime(ret.end_time)
        /\ includes(text, "Happy Hour 3-6pm")
              => ret = Times("3:00 PM", "6:00 PM")

(***************************************************************************)
(* Claims on the extractor                                                 *)
(***************************************************************************)
\* C1: the output array has the length of the venue list read, and its i-th
\* record carries the i-th venue's id, whatever data/raw holds (file
\* present, missing or empty).
C1_OutputMatchesInput ==
    ePc = "done" =>
        /\ happyHoursFile.exists
        /\ Len(happyHoursFile.data) = Len(venuesFile.data)
        /\ \A i \in 1..Len(venuesFile.data) :
              happyHoursFile.data[i].id = venuesFile.data[i].id

C1_Witness ==
    /\ ePc = "done"
    /\ Len(happyHoursFile.data) = 2
    /\ happyHoursFile.data[1].id # happyHoursFile.data[2].id
    /\ rawDir[venuesFile.data[1].id] = Null
    /\ rawDir[venuesFile.data[2].id] = ""

FiveFields == {"days", "start_time", "end_time", "food_deals", "drink_deals"}
HasMarker(raw) ==
    raw = "" \/ includes(raw, "No website available") \/ includes(raw, "Unable to crawl")
RawOf(id) == IF rawDir[id] = Null THEN "" ELSE rawDir[id]

\* C2: a record made from a raw text that is empty or contains "No website
\* available" or "Unable to crawl" has all five happy-hour fields equal to
\* "unknown", whatever else the text contains.
C2_SentinelShortCircuit ==
    \A i \in 1..Len(results) :
        HasMarker(RawOf(results[i].id))
            => \A f \in FiveFields : results[i].happy_hour[f] = "unknown"

C2_Witness ==
    \E i \in 1..Len(results) :
        /\ includes(RawOf(results[i].id), "Unable to crawl")
        /\ includes(RawOf(results[i].id), "Monday-Friday 3pm-6pm")
        /\ includes(RawOf(results[i].id), "$5 drafts")
        /\ \A f \in FiveFields : results[i].happy_hour[f] = "unknown"

(***************************************************************************)
(* Claims on the crawler                                                   *)
(***************************************************************************)
NavigationsOf(i) == {k \in 1..Len(navLog) : navLog[k][1] = i}
CrawlWritesOf(i) ==
    {k \in 1..Len(writeLog) : writeLog[k].pos = i /\ writeLog[k].by = "crawlVenue"}

\* C3: for a venue whose website is null or empty, crawlVenue opens no
\* context or page and navigates nowhere, the capture it writes is under the
\* venue's id and holds the venue's name, address and neighborhood and the
\* phrase "No website available", and the extractor's record for the venue
\* has all five happy-hour fields "unknown".
C3_NoWebsiteEndToEnd ==
    \A i \in 1..Len(venuesFile.data) :
        (venuesFile.data[i].website = Null \/ venuesFile.data[i].website = "") =>
            /\ i \notin opened
            /\ NavigationsOf(i) = {}
            /\ i < cPos => CrawlWritesOf(i) # {}
            /\ \A k \in CrawlWritesOf(i) :
                  /\ writeLog[k].id = venuesFile.data[i].id
                  /\ includes(writeLog[k].text, "Venue: " \o venuesFile.data[i].name)
                  /\ includes(writeLog[k].text, "Address: " \o venuesFile.data[i].address)
                  /\ includes(writeLog[k].text,
                              "Neighborhood: " \o venuesFile.data[i].neighborhood)
                  /\ includes(writeLog[k].text, "No website available")
            /\ \A r \in 1..Len(results) :
                  results[r].id = venuesFile.data[i].id =>
                      \A f \in FiveFields : results[r].happy_hour[f] = "unknown"

C3_Witness ==
    /\ ePc = "done"
    /\ Len(venuesFile.data) = 2
    /\ venuesFile.data[1].website # Null /\ venuesFile.data[1].website # ""
    /\ venuesFile.data[2].website = Null
    /\ opened = {1}
    /\ includes(rawDir[venuesFile.data[2].id], "No website available")
    /\ happyHoursFile.data[1].happy_hour.days # "unknown"
    /\ \A f \in FiveFields : happyHoursFile.data[2].happy_hour[f] = "unknown"

NoDuplicates(seq) == \A i, j \in 1..Len(seq) : i # j => seq[i] # seq[j]
\* the hostname of href is that of site or a subdomain of it
OnSite(href, site) ==
    \E h \in {hostname(href)}, b \in {hostname(site)} :
        /\ h # Null /\ b # Null
        /\ \/ h = b
           \/ /\ Len(h) > Len(b)
              /\ SubSeq(h, Len(h) - Len(b), Len(h)) = "." \o b

\* C10: the list findRelevantLinks returns has at most 5 links, no link
\* twice, and only links on the host of the venue's website or a subdomain
\* of it; crawlVenue navigates to at most 5 subpages for a venue and to no
\* other host.
C10_LinksBounded ==
    /\ Len(links) <= 5
    /\ NoDuplicates(links)
    /\ cPc = "sub" => \A k \in 1..Len(links) :
                          OnSite(links[k], venuesFile.data[cPos].website)
    /\ \A i \in 1..Len(venuesFile.data) :
          /\ Cardinality(NavigationsOf(i)) <= 1 + 5
          /\ \A k \in NavigationsOf(i) : OnSite(navLog[k][2], venuesFile.data[i].website)

C10_Witness ==
    /\ cPc = "sub" /\ lPos = 6
    /\ Len(links) = 5
    /\ web.anchors = SubSeq(SiteAnchors, 1, 8)
    /\ Cardinality(NavigationsOf(1)) = 6
    /\ \E k \in 1..Len(links) : hostname(links[k]) = "order.lingerdenver.com"

(***************************************************************************)
(* Claims on the scraper                                                   *)
(***************************************************************************)
\* the index of the first venue of list with the slug id
FirstWithSlug(list, id) ==
    CHOOSE j \in 1..Len(list) :
        slugify(list[j].name) = id /\ \A h \in 1..(j - 1) : slugify(list[h].name) # id
LiveWritten == venuesFile.exists /\ venuesFile.data # getFallbackVenues

\* C7: the array written to venues.json has no two venues with the same
\* id; of the scraped venues with one slug the first one is the one written,
\* and the written venues stand in the order in which they were scraped.
C7_NoDuplicateIds ==
    venuesFile.exists =>
        /\ \A i, j \in 1..Len(venuesFile.data) :
              i # j => venuesFile.data[i].id # venuesFile.data[j].id
        /\ LiveWritten =>
              /\ {venuesFile.data[k].id : k \in 1..Len(venuesFile.data)}
                    = {slugify(scraped.venues[j].name) : j \in 1..Len(scraped.venues)}
              /\ \A k \in 1..Len(venuesFile.data) :
                    /\ venuesFile.data[k].name
                          = scraped.venues[FirstWithSlug(scraped.venues,
                                                         venuesFile.data[k].id)].name
                    /\ \A h \in 1..(k - 1) :
                          FirstWithSlug(scraped.venues, venuesFile.data[h].id)
                             < FirstWithSlug(scraped.venues, venuesFile.data[k].id)

C7_Witness ==
    /\ sPc = "done" /\ LiveWritten
    /\ Len(venuesFile.data) < Len(scraped.venues)
    /\ \E i, j \in 1..Len(scraped.venues) :
          /\ i < j
          /\ scraped.venues[i].name = "Linger" /\ scraped.venues[j].name = "LINGER!"
          /\ \E k \in 1..Len(venuesFile.data) : venuesFile.data[k].name = "Linger"
          /\ \A k \in 1..Len(venuesFile.data) : venuesFile.data[k].name # "LINGER!"

\* C8: the fallback list is written if and only if the live path threw or
\* returned fewer than 10 venues, and otherwise venues of the live scrape
\* are written; venues.json is written exactly once and is not empty.
C8_FallbackIffLiveFails ==
    /\ writeCount <= 1
    /\ sPc = "done" =>
          /\ writeCount = 1
          /\ venuesFile.exists /\ Len(venuesFile.data) > 0
          /\ (venuesFile.data = getFallbackVenues)
                <=> (liveThrew \/ Len(scraped.venues) < MinVenues)
          /\ ~(liveThrew \/ Len(scraped.venues) < MinVenues) =>
                \A k \in 1..Len(venuesFile.data) :
                    \E j \in 1..Len(scraped.venues) :
                        /\ venuesFile.data[k].name = scraped.venues[j].name
                        /\ venuesFile.data[k].neighborhood = scraped.venues[j].neighborhood
                        /\ venuesFile.data[k].website = scraped.venues[j].website

C8_Witness ==
    /\ sPc = "done" /\ writeCount = 1
    /\ ~liveThrew /\ scraped.returned
    /\ Len(scraped.venues) > 0 /\ Len(scraped.venues) < MinVenues
    /\ venuesFile.data = getFallbackVenues

\* C9 as stated: when one query fails, the other query is still run and the
\* venues it finds are part of what scrapeGoogleMaps returns.
C9_OtherQueryStillRuns ==
    (failedQuery # 0 /\ sPc \in {"catch", "write", "done"}) =>
        \A q \in 1..Len(SEARCHES) :
            q # failedQuery =>
                /\ q \in ranQueries
                /\ scraped.returned
                /\ \A k \in 1..Len(found[q]) :
                      \E j \in 1..Len(scraped.venues) : scraped.venues[j] = found[q][k]

\* C9: an error in one query ends the live path: no later query is run,
\* scrapeGoogleMaps throws instead of returning venues, and main writes the
\* fallback list.
C9_FailureAbortsLivePath ==
    failedQuery # 0 =>
        /\ \A q \in 1..Len(SEARCHES) : q > failedQuery => q \notin ranQueries
        /\ liveThrew /\ ~scraped.returned
        /\ sPc = "done" => venuesFile.data = getFallbackVenues

C9_Witness ==
    /\ sPc = "done"
    /\ failedQuery = 2 /\ ranQueries = {1, 2}
    /\ Len(found[1]) > 0 /\ Len(found[2]) > 0
    /\ venuesFile.data = getFallbackVenues

\* C18: the venue array written to venues.json has at least 10 venues: a
\* live result is written only when it still has 10 venues after the
\* de-duplication by id, and otherwise the 24 fallback venues are written.
C18_AtLeastMinVenues ==
    venuesFile.exists =>
        /\ Len(venuesFile.data) >= MinVenues
        /\ ~LiveWritten => Len(venuesFile.data) = 24

(***************************************************************************)
(* Claims on the crawler's run over a venue list                           *)
(***************************************************************************)
CapturedIds == {id \in DOMAIN rawDir : rawDir[id] # Null}

\* C11: when the crawler has finished its run over a list with unique ids,
\* with fetches that succeeded or failed or with no browser at all, there is
\* exactly one capture file per venue of the list, and every venue of the
\* extractor's output has one.
C11_OneCapturePerVenue ==
    cPc = "done" =>
        /\ \A i \in 1..Len(venuesFile.data) : rawDir[venuesFile.data[i].id] # Null
        /\ Cardinality(CapturedIds) = Len(venuesFile.data)
        /\ \A r \in 1..Len(results) : rawDir[results[r].id] # Null

C11_Witness ==
    /\ cPc = "done" /\ ePc = "done"
    /\ Len(venuesFile.data) = 2 /\ Len(happyHoursFile.data) = 2
    /\ \E i, j \in 1..2 :
          /\ includes(rawDir[venuesFile.data[i].id], "Failed to fetch homepage")
          /\ includes(rawDir[venuesFile.data[j].id], "No website available")

\* C12: a failure of any step of crawlVenue for one venue (context, page,
\* navigation, text, close, write) does not keep crawlVenue from being
\* invoked for every later venue of the list.
C12_FailureNeverAborts ==
    (cPos >= 1 /\ cPc \in {"catch", "rethrow", "finally", "done", "exit1"})
        => cPos >= Len(venuesFile.data)

\* C13: once crawlVenue has written a venue's capture, no later write of
\* the run puts the fallback sentinel in that venue's file.
C13_FallbackOnlyForUncaptured ==
    \A k, j \in 1..Len(writeLog) :
        (k < j /\ writeLog[k].by = "crawlVenue" /\ writeLog[j].by = "fallback")
            => writeLog[k].id # writeLog[j].id

(***************************************************************************)
(* Claims on the capture of a venue with a website                         *)
(***************************************************************************)
\* the URLs crawlVenue navigated to for the i-th venue, in order
NavUrlsOf(i) ==
    [k \in 1..Cardinality(NavigationsOf(i)) |->
        navLog[CHOOSE n \in NavigationsOf(i) :
                  Cardinality({m \in NavigationsOf(i) : m <= n}) = k][2]]

\* the sections a subpage link can contribute: its text, or the failure
SectionsOf(link) ==
    {SubpageSection(link, subText) : subText \in {web.sub, ""}}
        \cup {SubpageFailure(link, message) : message \in ErrorMessages}

RECURSIVE IsSections(_, _, _)
\* txt is one section per link of ls[k..], in the order of ls
IsSections(txt, ls, k) ==
    IF k > Len(ls) THEN txt = ""
    ELSE \E s \in SectionsOf(ls[k]) :
            /\ startsWith(txt, s)
            /\ IsSections(SubSeq(txt, Len(s) + 1, Len(txt)), ls, k + 1)

\* the links findRelevantLinks can select on the homepage of the run
SelectedLinks(venue) ==
    {findRelevantLinks([evaluates |-> e, anchors |-> web.anchors], venue.website) :
        e \in BOOLEAN}

\* the capture is the header, the homepage section and one section per link
CaptureOfLinks(txt, venue, ls) ==
    \E homeText \in {web.home, ""} :
        LET head == MetaHeader(venue, venue.website) \o HomepageSection(homeText)
        IN  /\ startsWith(txt, head)
            /\ IsSections(SubSeq(txt, Len(head) + 1, Len(txt)), ls, 1)

\* C16: a capture written for a venue whose homepage was fetched is the
\* metadata header, the homepage section and one labelled section per
\* selected link in discovery order, a failed subpage being a section that
\* notes the failure; every selected link was navigated to, also after a
\* failed one.
C16_SectionsInOrder ==
    \A k \in 1..Len(writeLog) :
        (writeLog[k].by = "crawlVenue" /\ includes(writeLog[k].text, "=== HOMEPAGE ==="))
            => \E navs \in {NavUrlsOf(writeLog[k].pos)},
                  venue \in {venuesFile.data[writeLog[k].pos]} :
                   /\ Len(navs) >= 1
                   /\ navs[1] = venue.website
                   /\ Tail(navs) \in SelectedLinks(venue)
                   /\ CaptureOfLinks(writeLog[k].text, venue, Tail(navs))

C16_Witness ==
    /\ Len(writeLog) = 1 /\ writeLog[1].by = "crawlVenue"
    /\ Len(NavUrlsOf(1)) >= 4
    /\ \E message \in ErrorMessages :
          includes(writeLog[1].text,
                   SubpageFailure(NavUrlsOf(1)[2], message)
                      \o SubpageSection(NavUrlsOf(1)[3], ""))
    /\ rawDir[venuesFile.data[1].id] = writeLog[1].text

(***************************************************************************)
(* The crawler and then the extractor over one venue whose homepage may    *)
(* fail                                                                    *)
(***************************************************************************)
\* a venue as the live scrape writes it: a name with a day word in it
SundayVinyl ==
    [id |-> slugify("Sunday Vinyl"), name |-> "Sunday Vinyl",
     address |-> "1803 16th St, Denver, CO 80202", neighborhood |-> "LoDo",
     website |-> "https://sundayvinyl.com", scraped_at |-> Timestamp]

HomepageVenues == ExtractorVenues \cup {SundayVinyl}

InitHomepage ==
    /\ \E l \in DistinctListsOver(HomepageVenues, MaxVenues) : venuesFile = File(l)
    /\ rawDir = [id \in {v.id : v \in HomepageVenues} |-> Null]
    /\ happyHoursFile = NoFile
    /\ web \in PipelineWebs
    /\ CrawlerStarts
    /\ results = <<>> /\ ePos = 0 /\ ePc = "start"
    /\ lastIndexes = FreshLastIndexes
    /\ FnIdle /\ ScraperIdle

SpecHomepage == InitHomepage /\ [][NextPipeline]_vars

\* C17: for a venue whose homepage fetch failed, crawlVenue navigated to
\* the homepage only, the capture it wrote is the metadata header and the
\* failure note, and the extractor's record for that capture has all five
\* happy-hour fields "unknown".
C17_HomepageFailureEndToEnd ==
    \A k \in 1..Len(writeLog) :
        (writeLog[k].by = "crawlVenue"
            /\ includes(writeLog[k].text, "Failed to fetch homepage"))
            => /\ NavUrlsOf(writeLog[k].pos)
                     = <<venuesFile.data[writeLog[k].pos].website>>
               /\ \E message \in ErrorMessages :
                     writeLog[k].text
                        = MetaHeader(venuesFile.data[writeLog[k].pos],
                                     venuesFile.data[writeLog[k].pos].website)
                             \o HomepageFailure(message)
               /\ \A r \in 1..Len(results) :
                     (results[r].id = writeLog[k].id
                         /\ rawDir[writeLog[k].id] = writeLog[k].text)
                         => \A f \in FiveFields : results[r].happy_hour[f] = "unknown"

(***************************************************************************)
(* One call of extractHappyHourInfo                                        *)
(***************************************************************************)
InfoTexts ==
    TimeTexts
    \cup {"Unable to crawl website. Happy Hour 3-6pm", "No website available. 4pm - 7pm",
          "Happy Hour 3pm", "Open until 2am", "$5 drafts 3 to close"}

InitInfo ==
    /\ text \in InfoTexts /\ ret = Null /\ fnPc = "call"
    /\ NoFiles /\ ExtractorIdle /\ ScraperIdle /\ CrawlerIdle

CallExtractHappyHourInfo ==
    /\ fnPc = "call"
    /\ ret' = extractHappyHourInfo(text)
    /\ fnPc' = "done"
    /\ UNCHANGED <<text, fileVars, extractorVars, scraperVars, crawlerVars>>

SpecInfo == InitInfo /\ [][CallExtractHappyHourInfo]_vars

\* C14: in a record extractHappyHourInfo returns, start_time is "unknown"
\* if and only if end_time is "unknown".
C14_NoPartialTimes ==
    fnPc = "done" => (ret.start_time = "unknown" <=> ret.end_time = "unknown")

C14_Witness ==
    /\ fnPc = "done"
    /\ text = "Happy Hour 3-6pm"
    /\ ret.start_time = "3" /\ ret.end_time = "6:00 PM"

(***************************************************************************)
(* Claims on the shared pattern objects                                    *)
(***************************************************************************)
\* C15: every record of an extractor run has the happy-hour fields that
\* extractHappyHourInfo gives for the venue's raw text alone, with patterns
\* whose lastIndex is 0: what the patterns keep from earlier venues changes
\* nothing.
C15_IndependentOfEarlierVenues ==
    \A r \in 1..Len(results) :
        /\ results[r].id = venuesFile.data[r].id
        /\ results[r].happy_hour = extractHappyHourInfo(ReadRaw(results[r].id))

C15_Witness ==
    /\ ePc = "done" /\ Len(results) = 2
    /\ lastIndexes.time[1] > 0
    /\ \A r \in 1..2 :
          /\ ReadRaw(results[r].id) = "unable to crawl? Sat-Sun 11am-2pm, $3 tacos"
          /\ results[r].happy_hour.start_time = "11:00 AM"
          /\ results[r].happy_hour.end_time = "2:00 PM"
          /\ results[r].happy_hour.food_deals = <<"$3 taco">>

=============================================================================
